---- MODULE Spec2Model ----
(***************************************************************************)
(* A model of dynazord's data helpers (src/helpers/data.js), the update    *)
(* method (methods/update.js) and the model factory (src/index.js).        *)
(***************************************************************************)
EXTENDS Integers, Sequences, FiniteSets, TLC

VARIABLES
    op,          \* which entry point this behaviour runs
    pc,          \* position of the call: "start", then the steps of the call
    properties,  \* the property schema: a sequence of property records, in declaration order
    data,        \* the document (an ordered sequence of [k, v] entries), mutated in place
    input,       \* the document as it was handed in
    fieldHook,   \* opts.fieldHook of formatWriteData
    outcome,     \* "pending", "resolved" or "rejected"
    result,      \* what the call returned (marshallKey's output, createModel's model)
    calls,       \* the validators / store calls made so far, in order
    keySchema,   \* the keySchema of the model (or the one given to createModel)
    options,     \* createModel's options
    reader,      \* the formatReadData task started by updateDocument, and the item it works on
    where,       \* the key object handed to updateDocument
    err          \* the error a rejected call carries

vars == <<op, pc, properties, data, input, fieldHook, outcome, result, calls,
          keySchema, options, reader, where, err>>

(***************************************************************************)
(* Bounds                                                                  *)
(***************************************************************************)
MaxNum == 1
MaxRules == 2

(***************************************************************************)
(* JavaScript values.  k is the kind, n the number (or 0/1 for a boolean), *)
(* s the text.                                                             *)
(***************************************************************************)
Undef == [k |-> "undefined", n |-> 0, s |-> ""]
Null == [k |-> "null", n |-> 0, s |-> ""]
Num(i) == [k |-> "number", n |-> i, s |-> ""]
Str(t) == [k |-> "string", n |-> 0, s |-> t]
Bool(b) == [k |-> "boolean", n |-> (IF b THEN 1 ELSE 0), s |-> ""]
DateObj(i) == [k |-> "date", n |-> i, s |-> ""]

\* typeof value
TypeOf(v) ==
    CASE v.k = "undefined" -> "undefined"
      [] v.k = "number" -> "number"
      [] v.k = "string" -> "string"
      [] v.k = "boolean" -> "boolean"
      [] OTHER -> "object"

\* the truthiness test of `hasProperty || value`
Truthy(v) ==
    CASE v.k = "undefined" -> FALSE
      [] v.k = "null" -> FALSE
      [] v.k = "number" -> v.n # 0
      [] v.k = "string" -> v.s # ""
      [] v.k = "boolean" -> v.n = 1
      [] OTHER -> TRUE

Digit(d) == CASE d = 0 -> "0" [] d = 1 -> "1" [] d = 2 -> "2" [] d = 3 -> "3"
              [] d = 4 -> "4" [] d = 5 -> "5" [] d = 6 -> "6" [] d = 7 -> "7"
              [] d = 8 -> "8" [] d = 9 -> "9"

RECURSIVE NatString(_)
NatString(i) == IF i < 10 THEN Digit(i) ELSE NatString(i \div 10) \o Digit(i % 10)

\* `${value}` of a number: its decimal text
DecimalString(i) == IF i < 0 THEN "-" \o NatString(0 - i) ELSE NatString(i)

\* `${value}`
TemplateString(v) ==
    CASE v.k = "undefined" -> "undefined"
      [] v.k = "null" -> "null"
      [] v.k = "number" -> DecimalString(v.n)
      [] v.k = "string" -> v.s
      [] v.k = "boolean" -> (IF v.n = 1 THEN "true" ELSE "false")
      [] OTHER -> "date:" \o DecimalString(v.n)

(***************************************************************************)
(* The functions a schema author (or a type) can attach: each is named,    *)
(* "none" meaning that the slot holds no function.                         *)
(***************************************************************************)
IsFunction(f) == f # "none"

Throws(f, v) == f = "throw"

Call(f, v) ==
    CASE f = "id" -> v
      [] f = "tagP" -> Str(TemplateString(v) \o "p")      \* v => `${v}p`
      [] f = "tagT" -> Str(TemplateString(v) \o "t")      \* v => `${v}t`
      [] f = "tagG" -> Str(TemplateString(v) \o "g")      \* v => `${v}g`
      [] f = "tagU" -> Str(TemplateString(v) \o "u")      \* v => `${v}u`
      [] f = "length" -> Num(Len(TemplateString(v)))      \* v => `${v}`.length
      [] f = "negate" -> (IF v.k = "number" THEN Num(0 - v.n) ELSE v)
      [] f = "undefined" -> Undef
      [] f = "null" -> Null
      [] f = "zero" -> Num(0)
      [] f = "empty" -> Str("")
      [] f = "false" -> Bool(FALSE)
      [] f = "now" -> DateObj(1)                          \* () => new Date()
      [] f = "orNow" -> (IF Truthy(v) THEN v ELSE DateObj(1)) \* value => value || new Date()
      [] OTHER -> v

(***************************************************************************)
(* Documents: plain objects, as the ordered sequence of their own keys.    *)
(***************************************************************************)
Keys(doc) == {doc[i].k : i \in 1..Len(doc)}

HasOwnProperty(doc, key) == key \in Keys(doc)

Index(doc, key) == CHOOSE i \in 1..Len(doc) : doc[i].k = key

Get(doc, key) == IF HasOwnProperty(doc, key) THEN doc[Index(doc, key)].v ELSE Undef

Put(doc, key, v) ==
    IF HasOwnProperty(doc, key)
    THEN [doc EXCEPT ![Index(doc, key)] = [k |-> key, v |-> v]]
    ELSE Append(doc, [k |-> key, v |-> v])

(***************************************************************************)
(* The type registry (`types`): the descriptor of each registered type.    *)
(* "String" has no transforms; "Date" has a set and a get transform, which *)
(* leave a visible mark on whatever they are given; any other type name is *)
(* not registered, so that `types[property.type]` is undefined.            *)
(***************************************************************************)
TypeNames == {"String", "Date"}

types(name) ==
    CASE name = "String" -> [set |-> "none", get |-> "none",
                             validate |-> {"type", "notNull", "notEmpty"}]
      [] name = "Date" -> [set |-> "tagT", get |-> "tagG",
                           validate |-> {"type", "notNull"}]

\* const { [property ? property.type : 'null']: type } = types;  `type && ...`
HasType(property) == property.type \in TypeNames

TypeSet(property) == IF HasType(property) THEN types(property.type).set ELSE "none"

TypeGet(property) == IF HasType(property) THEN types(property.type).get ELSE "none"

\* a property of the schema
Property(name, type, required, set, get, onCreate, onUpdate, validate) ==
    [name |-> name, type |-> type, required |-> required, set |-> set, get |-> get,
     onCreate |-> onCreate, onUpdate |-> onUpdate, validate |-> validate]

\* property[fieldHook]
Hook(property, hook) ==
    CASE hook = "onCreate" -> property.onCreate
      [] hook = "onUpdate" -> property.onUpdate
      [] OTHER -> "none"

(***************************************************************************)
(* formatWriteData, one iteration of its loop: st is [data, failed].       *)
(***************************************************************************)
\* (hasProperty || value)
WriteGuard(hasProperty, value) == hasProperty \/ Truthy(value)

StoreAlways(doc, key, hasProperty, value) == Put(doc, key, value)

\* if (hasProperty) data[key] = value; else if (value !== undefined) data[key] = value;
Store(doc, key, hasProperty, value) ==
    IF hasProperty \/ value # Undef THEN Put(doc, key, value) ELSE doc

formatWriteField(property, doc, hook) ==
    LET key == property.name
        hasProperty == HasOwnProperty(doc, key)
        v0 == Get(doc, key)
        h == IF hook # "none" THEN Hook(property, hook) ELSE "none"
        t1 == IsFunction(h) /\ Throws(h, v0)
        v1 == IF IsFunction(h) THEN Call(h, v0) ELSE v0
        c2 == WriteGuard(hasProperty, v1) /\ IsFunction(property.set)
        t2 == c2 /\ Throws(property.set, v1)
        v2 == IF c2 THEN Call(property.set, v1) ELSE v1
        c3 == WriteGuard(hasProperty, v2) /\ HasType(property) /\ IsFunction(TypeSet(property))
        t3 == c3 /\ Throws(TypeSet(property), v2)
        v3 == IF c3 THEN Call(TypeSet(property), v2) ELSE v2
    IN  IF t1 \/ t2 \/ t3
        THEN [data |-> doc, failed |-> TRUE]
        ELSE [data |-> Store(doc, key, hasProperty, v3), failed |-> FALSE]

RECURSIVE formatWriteFrom(_, _, _, _)
formatWriteFrom(props, i, doc, hook) ==
    IF i > Len(props) THEN [data |-> doc, failed |-> FALSE]
    ELSE LET r == formatWriteField(props[i], doc, hook)
         IN  IF r.failed THEN r ELSE formatWriteFrom(props, i + 1, r.data, hook)

formatWriteData(props, doc, hook) == formatWriteFrom(props, 1, doc, hook)

(***************************************************************************)
(* formatReadData, one iteration of its loop.                              *)
(***************************************************************************)
formatReadField(property, doc) ==
    LET key == property.name
        hasProperty == HasOwnProperty(doc, key)
        v0 == Get(doc, key)
        c1 == (hasProperty \/ Truthy(v0)) /\ HasType(property) /\ IsFunction(TypeGet(property))
        t1 == c1 /\ Throws(TypeGet(property), v0)
        v1 == IF c1 THEN Call(TypeGet(property), v0) ELSE v0
        c2 == (hasProperty \/ Truthy(v1)) /\ IsFunction(property.get)
        t2 == c2 /\ Throws(property.get, v1)
        v2 == IF c2 THEN Call(property.get, v1) ELSE v1
    IN  IF t1 \/ t2
        THEN [data |-> doc, failed |-> TRUE]
        ELSE [data |-> Store(doc, key, hasProperty, v2), failed |-> FALSE]

RECURSIVE formatReadFrom(_, _, _)
formatReadFrom(props, i, doc) ==
    IF i > Len(props) THEN [data |-> doc, failed |-> FALSE]
    ELSE LET r == formatReadField(props[i], doc)
         IN  IF r.failed THEN r ELSE formatReadFrom(props, i + 1, r.data)

formatReadData(props, doc) == formatReadFrom(props, 1, doc)

(***************************************************************************)
(* Inputs.                                                                 *)
(***************************************************************************)
NoDoc == <<>>

NoError == [kind |-> "none", key |-> "none"]

NoReader == [state |-> "idle", i |-> 0, item |-> <<>>]

Idle ==
    /\ fieldHook = "none"
    /\ outcome = "pending"
    /\ result = NoDoc
    /\ calls = <<>>
    /\ keySchema = [hash |-> "none", range |-> "none"]
    /\ options = [createdAtTimestamp |-> FALSE, updatedAtTimestamp |-> FALSE]
    /\ reader = NoReader
    /\ where = NoDoc
    /\ err = NoError

\* the values a field of an input document can hold
Values == {Undef, Null, Str("x")} \cup {Num(i) : i \in 0..MaxNum}

\* the documents over the fields "a" and "b": each field absent or present, in either key order
Entry(key, vs) == {[k |-> key, v |-> v] : v \in vs}

DocsOf(ka, va, kb, vb) ==
    {<<>>} \cup {<<ea>> : ea \in Entry(ka, va)} \cup {<<eb>> : eb \in Entry(kb, vb)}
           \cup {<<ea, eb>> : ea \in Entry(ka, va), eb \in Entry(kb, vb)}
           \cup {<<eb, ea>> : ea \in Entry(ka, va), eb \in Entry(kb, vb)}

Docs(va, vb) == DocsOf("a", va, "b", vb)

HookFunctions == {"none", "undefined", "null", "zero", "empty", "false", "orNow", "throw"}

\* schemas whose set transforms and lifecycle hooks vary
WriteSchemas ==
    {<<Property("a", ty, Bool(TRUE), st, "none", oc, ou, <<>>),
       Property("b", "String", Bool(FALSE), sb, "none", ob, "none", <<>>)>> :
        ty \in {"String", "Date", "Custom"}, st \in {"none", "tagP", "undefined"},
        oc \in HookFunctions, ou \in {"none", "now"},
        sb \in {"none", "tagP"}, ob \in {"none", "undefined", "now"}}

\* schemas whose get transforms vary
ReadSchemas ==
    {<<Property("a", ty, Bool(TRUE), "none", ga, "none", "none", <<>>),
       Property("b", "String", Bool(FALSE), "none", gb, "none", "none", <<>>)>> :
        ty \in {"String", "Date", "Custom"}, ga \in {"none", "tagU", "undefined", "throw"},
        gb \in {"none", "tagU"}}

InitPipeline ==
    /\ op = "pipeline"
    /\ pc = "start"
    /\ \/ /\ properties \in WriteSchemas
          /\ fieldHook \in {"none", "onCreate", "onUpdate"}
          /\ input \in Docs(Values, {Str("y")})
       \/ /\ properties \in ReadSchemas
          /\ fieldHook = "none"
          /\ input \in Docs(Values, {Str("y")})
    /\ data = input
    /\ outcome = "pending"
    /\ result = NoDoc
    /\ calls = <<>>
    /\ keySchema = [hash |-> "none", range |-> "none"]
    /\ options = [createdAtTimestamp |-> FALSE, updatedAtTimestamp |-> FALSE]
    /\ reader = NoReader
    /\ where = NoDoc
    /\ err = NoError

\* await formatWriteData(properties, data, { fieldHook })
FormatWriteData ==
    /\ op = "pipeline" /\ pc = "start"
    /\ LET r == formatWriteData(properties, data, fieldHook)
       IN  /\ data' = r.data
           /\ outcome' = IF r.failed THEN "rejected" ELSE "resolved"
    /\ pc' = "write"
    /\ UNCHANGED <<op, properties, input, fieldHook, result, calls, keySchema, options, reader, where, err>>

\* await formatReadData(properties, data)
FormatReadData ==
    /\ op = "pipeline" /\ pc = "start"
    /\ LET r == formatReadData(properties, data)
       IN  /\ data' = r.data
           /\ outcome' = IF r.failed THEN "rejected" ELSE "resolved"
    /\ pc' = "read"
    /\ UNCHANGED <<op, properties, input, fieldHook, result, calls, keySchema, options, reader, where, err>>

NextPipeline == FormatWriteData \/ FormatReadData

SpecPipeline == InitPipeline /\ [][NextPipeline]_vars

\* the declared property named key
Declared(key) == {properties[i] : i \in {j \in 1..Len(properties) : properties[j].name = key}}

\* the named lifecycle hook of a property, as formatWriteData selects it
NamedHook(property) == IF fieldHook # "none" THEN Hook(property, fieldHook) ELSE "none"

\* C1: presence law.  After formatWriteData a declared field that was absent from the
\* input is in the document only if the property's lifecycle hook returned something
\* other than undefined, and it never holds undefined; after formatReadData the
\* document has no field that the raw record did not have.
PresenceLaw ==
    /\ pc = "write" =>
          /\ \A i \in 1..Len(properties) :
                LET p == properties[i]
                IN  (HasOwnProperty(data, p.name) /\ ~HasOwnProperty(input, p.name)) =>
                       /\ IsFunction(NamedHook(p))
                       /\ ~Throws(NamedHook(p), Undef)
                       /\ Call(NamedHook(p), Undef) # Undef
                       /\ Get(data, p.name) # Undef
          /\ \A key \in Keys(data) \ Keys(input) : Declared(key) # {}
    /\ pc = "read" => Keys(data) \subseteq Keys(input)

\* a hook added one absent field, and another absent field whose hook returned undefined stayed absent
PresenceLawWitness ==
    /\ pc = "write" /\ outcome = "resolved"
    /\ input = <<>>
    /\ HasOwnProperty(data, "b")
    /\ ~HasOwnProperty(data, "a")
    /\ NamedHook(properties[1]) = "undefined"

\* what the stored value of a declared property is to be: the hook's result, through
\* the property's set transform, through the type's set transform
Transformed(property) ==
    LET v0 == Get(input, property.name)
        v1 == IF IsFunction(NamedHook(property)) THEN Call(NamedHook(property), v0) ELSE v0
        v2 == IF IsFunction(property.set) THEN Call(property.set, v1) ELSE v1
    IN  IF IsFunction(TypeSet(property)) THEN Call(TypeSet(property), v2) ELSE v2

\* C9: every declared property stored in the output of formatWriteData holds the hook's
\* result passed through the property's set transform and then the type's set transform,
\* whatever the hook returned.
SetTransformsAlwaysApplied ==
    (pc = "write" /\ outcome = "resolved") =>
        \A i \in 1..Len(properties) :
            HasOwnProperty(data, properties[i].name) =>
                Get(data, properties[i].name) = Transformed(properties[i])

(***************************************************************************)
(* marshallKey                                                             *)
(***************************************************************************)
\* const { [key]: property } = properties: the declared property, if any
Lookup(props, key) == {props[i] : i \in {j \in 1..Len(props) : props[j].name = key}}

IsKeyTypeAny(value) == TRUE

\* [ 'string', 'number' ].includes(typeof value)
IsKeyType(value) == TypeOf(value) \in {"string", "number"}

\* { [typeof value === 'number' ? 'N' : 'S']: `${value}` }
KeyAttribute(key, value) ==
    [k |-> key, tag |-> (IF TypeOf(value) = "number" THEN "N" ELSE "S"),
     text |-> TemplateString(value)]

\* one iteration of marshallKey's loop, for the entry e of the input
marshallKeyField(props, e) ==
    LET found == Lookup(props, e.k)
        property == CHOOSE p \in found : TRUE
        hasSet == found # {} /\ IsFunction(property.set)
        t1 == hasSet /\ Throws(property.set, e.v)
        v1 == IF hasSet THEN Call(property.set, e.v) ELSE e.v
        hasTypeSet == found # {} /\ HasType(property) /\ IsFunction(TypeSet(property))
        t2 == hasTypeSet /\ Throws(TypeSet(property), v1)
        v2 == IF hasTypeSet THEN Call(TypeSet(property), v1) ELSE v1
    IN  IF t1 \/ t2 THEN [failed |-> "transform", attr |-> KeyAttribute(e.k, Undef)]
        ELSE IF ~IsKeyType(v2) THEN [failed |-> "keytype", attr |-> KeyAttribute(e.k, Undef)]
        ELSE [failed |-> "none", attr |-> KeyAttribute(e.k, v2)]

RECURSIVE marshallKeyFrom(_, _, _, _)
marshallKeyFrom(props, in, i, output) ==
    IF i > Len(in) THEN [failed |-> "none", key |-> "none", output |-> output]
    ELSE LET r == marshallKeyField(props, in[i])
         IN  IF r.failed # "none" THEN [failed |-> r.failed, key |-> in[i].k, output |-> NoDoc]
             ELSE marshallKeyFrom(props, in, i + 1, Append(output, r.attr))

marshallKey(props, in) == marshallKeyFrom(props, in, 1, <<>>)

KeySchemas ==
    {<<Property("a", ty, Bool(TRUE), st, "none", "none", "none", <<>>)>> :
        ty \in {"String", "Date", "Custom"},
        st \in {"none", "tagP", "length", "negate", "null", "throw"}}
    \cup
    {<<Property("a", ty, Bool(TRUE), st, "none", "none", "none", <<>>),
       Property("b", "String", Bool(TRUE), sb, "none", "none", "none", <<>>)>> :
        ty \in {"String", "Date", "Custom"},
        st \in {"none", "tagP", "length", "negate", "null", "throw"},
        sb \in {"none", "length"}}

InitKey ==
    /\ op = "key"
    /\ pc = "start"
    /\ properties \in KeySchemas
    /\ input \in Docs(Values \cup {Bool(TRUE)}, {Str("y"), Num(MaxNum), Null})
    /\ data = input
    /\ Idle

\* await marshallKey(properties, input)
MarshallKey ==
    /\ op = "key" /\ pc = "start"
    /\ LET r == marshallKey(properties, input)
       IN  /\ result' = r.output
           /\ outcome' = IF r.failed # "none" THEN "rejected" ELSE "resolved"
           /\ err' = [kind |-> r.failed, key |-> r.key]
    /\ pc' = "done"
    /\ UNCHANGED <<op, properties, data, input, fieldHook, calls, keySchema, options, reader, where>>

NextKey == MarshallKey

SpecKey == InitKey /\ [][NextKey]_vars

\* the value of the input's i-th field after the property's set and then the type's set
KeyValue(i) ==
    LET found == Lookup(properties, input[i].k)
        property == CHOOSE p \in found : TRUE
        v1 == IF found # {} /\ IsFunction(property.set) THEN Call(property.set, input[i].v)
              ELSE input[i].v
    IN  IF found # {} /\ IsFunction(TypeSet(property)) THEN Call(TypeSet(property), v1) ELSE v1

\* whether a transform of the input's i-th field throws
KeyThrows(i) ==
    LET found == Lookup(properties, input[i].k)
        property == CHOOSE p \in found : TRUE
    IN  found # {} /\ (property.set = "throw" \/ TypeSet(property) = "throw")

\* C4: marshallKey fails or returns exactly the input's fields, each holding its value
\* after the property's set and then the type's set, text under S, a number under N as
\* its decimal text; a final value of any other type fails the call with the key-type
\* error and nothing is returned.
MarshallKeyContract ==
    pc = "done" =>
        /\ outcome = "resolved" =>
              /\ Len(result) = Len(input)
              /\ \A i \in 1..Len(input) :
                    /\ result[i].k = input[i].k
                    /\ KeyValue(i).k \in {"string", "number"}
                    /\ KeyValue(i).k = "string" =>
                          result[i].tag = "S" /\ result[i].text = KeyValue(i).s
                    /\ KeyValue(i).k = "number" =>
                          result[i].tag = "N" /\ result[i].text = DecimalString(KeyValue(i).n)
        /\ outcome = "rejected" => result = NoDoc
        /\ (\E i \in 1..Len(input) : KeyValue(i).k \notin {"string", "number"}) =>
              outcome = "rejected"
        /\ (/\ \E i \in 1..Len(input) : KeyValue(i).k \notin {"string", "number"}
            /\ \A i \in 1..Len(input) : ~KeyThrows(i)) => err.kind = "keytype"

\* a two-field key, one text and one number of two digits, was marshalled
MarshallKeyWitness ==
    /\ pc = "done" /\ outcome = "resolved"
    /\ Len(result) = 2
    /\ \E i, j \in 1..2 : /\ result[i].tag = "S"
                          /\ result[j].tag = "N" /\ Len(result[j].text) = 2

(***************************************************************************)
(* validateData                                                            *)
(***************************************************************************)
\* the built-in validators of the registered types, by name: whether the value passes
BuiltinPasses(typeName, vkey, value) ==
    CASE vkey = "type" -> ((typeName = "String" /\ value.k \in {"string", "null"})
                           \/ (typeName = "Date" /\ value.k \in {"date", "null"}))
      [] vkey = "notNull" -> value.k \notin {"null", "undefined"}
      [] vkey = "notEmpty" -> ~(value.k = "string" /\ value.s = "")
      [] OTHER -> TRUE

\* a rule of a property's validate map: fn is the function the rule holds, "none" when
\* the rule's value is not a function (notNull: true)
Rule(name, fn) == [name |-> name, fn |-> fn]

\* one call of a validator
ValidatorCall(key, rule, via) == [key |-> key, rule |-> rule, via |-> via]

\* const { type: assertValidType, ...typeValidators } = type.validate
TypeValidators(property) ==
    IF HasType(property) THEN types(property.type).validate \ {"type"} ELSE {}

HasAssertValidType(property) == HasType(property) /\ "type" \in types(property.type).validate

\* the rules of one field, from the i-th on: st is [failed, calls]
RECURSIVE validateRules(_, _, _, _)
validateRules(property, e, i, done) ==
    IF i > Len(property.validate) THEN [failed |-> "none", calls |-> done]
    ELSE LET rule == property.validate[i]
         IN  IF IsFunction(rule.fn)
             THEN LET now == Append(done, ValidatorCall(e.k, rule.name, "function"))
                  IN  IF Throws(rule.fn, e.v) THEN [failed |-> "invalid", calls |-> now]
                      ELSE validateRules(property, e, i + 1, now)
             ELSE IF rule.name \notin TypeValidators(property)
             THEN [failed |-> "unknown", calls |-> done]
             ELSE LET now == Append(done, ValidatorCall(e.k, rule.name, "builtin"))
                  IN  IF ~BuiltinPasses(property.type, rule.name, e.v)
                      THEN [failed |-> "invalid", calls |-> now]
                      ELSE validateRules(property, e, i + 1, now)

validateFieldNoType(props, e, done) ==
    LET found == Lookup(props, e.k)
    IN  IF found = {} THEN [failed |-> "none", calls |-> done]
        ELSE validateRules(CHOOSE p \in found : TRUE, e, 1, done)

\* the body of the try block, for the entry e of the document
validateField(props, e, done) ==
    LET found == Lookup(props, e.k)
        property == CHOOSE p \in found : TRUE
    IN  IF found = {} THEN [failed |-> "none", calls |-> done]
        ELSE IF HasAssertValidType(property)
        THEN LET now == Append(done, ValidatorCall(e.k, "type", "structural"))
             IN  IF ~BuiltinPasses(property.type, "type", e.v)
                 THEN [failed |-> "invalid", calls |-> now]
                 ELSE validateRules(property, e, 1, now)
        ELSE validateRules(property, e, 1, done)

RECURSIVE validateAll(_, _, _, _, _)
validateAll(props, doc, i, done, first) ==
    IF i > Len(doc) THEN [failed |-> first.failed, key |-> first.key, calls |-> done]
    ELSE LET r == validateField(props, doc[i], done)
         IN  validateAll(props, doc, i + 1, r.calls,
                 IF first.failed = "none" /\ r.failed # "none"
                 THEN [failed |-> r.failed, key |-> doc[i].k] ELSE first)

\* a validateData that goes on after a failure
validateDataExhaustive(props, doc) ==
    validateAll(props, doc, 1, <<>>, [failed |-> "none", key |-> "none"])

RECURSIVE validateFrom(_, _, _, _)
validateFrom(props, doc, i, done) ==
    IF i > Len(doc) THEN [failed |-> "none", key |-> "none", calls |-> done]
    ELSE LET r == validateField(props, doc[i], done)
         IN  IF r.failed # "none"
             THEN [failed |-> r.failed, key |-> doc[i].k, calls |-> r.calls]
             ELSE validateFrom(props, doc, i + 1, r.calls)

validateData(props, doc) == validateFrom(props, doc, 1, <<>>)

\* the rules a validate map can hold: built-in rules given a parameter, functions (one
\* returning nothing, one returning false, one throwing), and a rule no type knows
Rules ==
    {Rule("notNull", "none"), Rule("notEmpty", "none"), Rule("isEmail", "pass"),
     Rule("isUUID", "false"), Rule("isValidContent", "throw"), Rule("isBogus", "none")}

\* the validate maps of at most MaxRules rules, in every declaration order
RuleLists ==
    UNION {{f \in [1..n -> Rules] : \A i, j \in 1..n : i # j => f[i].name # f[j].name} :
           n \in 0..MaxRules}

ValidateSchemas ==
    {<<Property("a", ty, Bool(TRUE), "none", "none", "none", "none", va),
       Property("b", "String", Bool(FALSE), "none", "none", "none", "none", vb)>> :
        ty \in {"String", "Date", "Custom"}, va \in RuleLists,
        vb \in {<<>>, <<Rule("notEmpty", "none")>>, <<Rule("isValidContent", "throw")>>,
                <<Rule("isBogus", "none")>>}}
    \cup
    {<<Property("b", "String", Bool(FALSE), "none", "none", "none", "none", vb)>> :
        vb \in {<<>>, <<Rule("notEmpty", "none")>>}}

InitValidate ==
    /\ op = "validate"
    /\ pc = "start"
    /\ properties \in ValidateSchemas
    /\ input \in Docs(Values \cup {Str(""), DateObj(1)}, {Str("y"), Str("")})
    /\ data = input
    /\ Idle

\* await validateData(properties, data)
ValidateData ==
    /\ op = "validate" /\ pc = "start"
    /\ LET r == validateData(properties, data)
       IN  /\ calls' = r.calls
           /\ outcome' = IF r.failed # "none" THEN "rejected" ELSE "resolved"
           /\ err' = [kind |-> r.failed, key |-> r.key]
    /\ pc' = "done"
    /\ UNCHANGED <<op, properties, data, input, fieldHook, result, keySchema, options, reader, where>>

NextValidate == ValidateData

SpecValidate == InitValidate /\ [][NextValidate]_vars

\* the fields of the document that are invalid, by their position in the document
InvalidFields == {i \in 1..Len(input) : validateField(properties, input[i], <<>>).failed # "none"}

FirstInvalid == CHOOSE i \in InvalidFields : \A j \in InvalidFields : i <= j

\* C2: validateData visits the document's keys in document order and is fail-fast: with
\* invalid fields in the document it raises one error, naming the first invalid field in
\* document-key order, and calls no validator of a later field.
ValidationFailFast ==
    pc = "done" =>
        /\ \A i, j \in 1..Len(calls) :
              i < j => Index(input, calls[i].key) <= Index(input, calls[j].key)
        /\ InvalidFields = {} => outcome = "resolved" /\ err = NoError
        /\ InvalidFields # {} =>
              /\ outcome = "rejected"
              /\ err.key = input[FirstInvalid].k
              /\ \A i \in 1..Len(calls) : Index(input, calls[i].key) <= FirstInvalid

\* two invalid fields, and validators of the first one were called
ValidationFailFastWitness ==
    /\ pc = "done" /\ outcome = "rejected"
    /\ Cardinality(InvalidFields) >= 2
    /\ calls # <<>>

\* the calls made for one field, in order
CallsOf(key) == SelectSeq(calls, LAMBDA c : c.key = key)

RuleCallsOf(key) == SelectSeq(calls, LAMBDA c : c.key = key /\ c.via # "structural")

\* the fields validateData got to: all of them, or those up to the failing one
Visited ==
    {i \in 1..Len(input) : outcome = "resolved" \/ i <= Index(input, err.key)}

createdAtProperty ==
    Property("createdAt", "Date", Bool(TRUE), "none", "none", "orNow", "none", <<>>)

\* properties.updatedAt = { type: Date, required: true, default, onCreate, onUpdate, onUpsert }
updatedAtProperty ==
    Property("updatedAt", "Date", Bool(TRUE), "none", "none", "orNow", "orNow", <<>>)

\* properties[name] = property: in place when declared, else as the last key
SetProperty(props, property) ==
    IF Lookup(props, property.name) # {}
    THEN [i \in 1..Len(props) |-> IF props[i].name = property.name THEN property ELSE props[i]]
    ELSE Append(props, property)

\* the properties after the two timestamp options were applied
withTimestamps(props, opts) ==
    LET p1 == IF opts.createdAtTimestamp THEN SetProperty(props, createdAtProperty) ELSE props
    IN  IF opts.updatedAtTimestamp THEN SetProperty(p1, updatedAtProperty) ELSE p1

\* assertValidProperties(properties): every type resolves in the registry
assertValidProperties(props) == \A i \in 1..Len(props) : HasType(props[i])

\* the hash and range createModel reads out of opts.keySchema
keySchemaOf(ks, props) ==
    IF ks.form = "object" THEN [hash |-> ks.hash, range |-> ks.range]
    ELSE [hash |-> (IF ks.form = "string" /\ Truthy(ks.hash) THEN ks.hash
                    ELSE IF props = <<>> THEN Undef ELSE Str(props[1].name)),
          range |-> Undef]

\* properties[name] is there and has required === true
IsRequired(props, name) ==
    /\ name.k = "string"
    /\ \E q \in Lookup(props, name.s) : q.required = Bool(TRUE)

assertKeySchemaHashOnly(props, hash, range) ==
    /\ TypeOf(hash) = "string"
    /\ Lookup(props, hash.s) # {}
    /\ IsRequired(props, hash)

\* the six assertions on hash and range
assertKeySchema(props, hash, range) ==
    /\ TypeOf(hash) = "string"
    /\ Lookup(props, hash.s) # {}
    /\ IsRequired(props, hash)
    /\ ~Truthy(range) \/ TypeOf(range) = "string"
    /\ ~Truthy(range) \/ Lookup(props, range.s) # {}
    /\ ~Truthy(range) \/ IsRequired(props, range)

createModel(props, ks, opts) ==
    LET stamped == withTimestamps(props, opts)
        key == keySchemaOf(ks, stamped)
    IN  IF props = <<>> \/ ks.form = "other" THEN [failed |-> "opts", model |-> NoDoc]
        ELSE IF ~assertValidProperties(stamped) THEN [failed |-> "properties", model |-> NoDoc]
        ELSE IF ~assertKeySchema(stamped, key.hash, key.range)
        THEN [failed |-> "keySchema", model |-> NoDoc]
        ELSE [failed |-> "none", model |-> [keySchema |-> key, properties |-> stamped]]

ModelProperty(name) ==
    {Property(name, ty, rq, "none", "none", "none", "none", <<>>) :
        ty \in {"String", "Custom"}, rq \in {Bool(TRUE), Bool(FALSE), Undef, Num(MaxNum)}}

ModelSchemas ==
    {<<>>} \cup {<<p>> : p \in ModelProperty("email") \cup ModelProperty("createdAt")}
           \cup {<<p, q>> : p \in ModelProperty("email"), q \in ModelProperty("createdAt")}
           \cup {<<q, p>> : p \in ModelProperty("email"), q \in ModelProperty("createdAt")}

KeySchemaInputs ==
    {[form |-> "absent", hash |-> Undef, range |-> Undef],
     [form |-> "other", hash |-> Num(MaxNum), range |-> Undef]}
    \cup {[form |-> "string", hash |-> Str(h), range |-> Undef] :
            h \in {"email", "createdAt", "ghost", ""}}
    \cup {[form |-> "object", hash |-> h, range |-> r] :
            h \in {Undef, Str("email"), Str("ghost"), Num(MaxNum)},
            r \in {Undef, Null, Str(""), Str("createdAt"), Str("updatedAt"), Str("ghost"),
                   Num(MaxNum)}}

InitModel ==
    /\ op = "model"
    /\ pc = "start"
    /\ properties \in ModelSchemas
    /\ keySchema \in KeySchemaInputs
    /\ options \in [createdAtTimestamp : BOOLEAN, updatedAtTimestamp : BOOLEAN]
    /\ input = NoDoc
    /\ data = NoDoc
    /\ fieldHook = "none"
    /\ outcome = "pending"
    /\ result = NoDoc
    /\ calls = <<>>
    /\ reader = NoReader
    /\ where = NoDoc
    /\ err = NoError

\* createModel({ tableName, keySchema, properties, options })
CreateModel ==
    /\ op = "model" /\ pc = "start"
    /\ LET r == createModel(properties, keySchema, options)
       IN  /\ result' = r.model
           /\ outcome' = IF r.failed # "none" THEN "rejected" ELSE "resolved"
           /\ err' = [kind |-> r.failed, key |-> "none"]
    /\ pc' = "done"
    /\ UNCHANGED <<op, properties, data, input, fieldHook, calls, keySchema, options, reader, where>>

NextModel == CreateModel

SpecModel == InitModel /\ [][NextModel]_vars

\* C7: every model createModel returns has a keySchema whose hash field, and range field
\* when one is set, is a property of the model with required === true.
KeySchemaInvariant ==
    (pc = "done" /\ outcome = "resolved") =>
        /\ result.keySchema.hash.k = "string"
        /\ \E i \in 1..Len(result.properties) :
              /\ result.properties[i].name = result.keySchema.hash.s
              /\ result.properties[i].required = Bool(TRUE)
        /\ result.keySchema.range \notin {Undef, Null, Str(""), Num(0)} =>
              /\ result.keySchema.range.k = "string"
              /\ \E i \in 1..Len(result.properties) :
                    /\ result.properties[i].name = result.keySchema.range.s
                    /\ result.properties[i].required = Bool(TRUE)

\* the sessions example: the range key is createdAt, declared without required and made
\* required by the createdAtTimestamp option
KeySchemaInvariantWitness ==
    /\ pc = "done" /\ outcome = "resolved"
    /\ result.keySchema = [hash |-> Str("email"), range |-> Str("createdAt")]
    /\ options.createdAtTimestamp
    /\ \E q \in Lookup(properties, "createdAt") : q.required # Bool(TRUE)

(***************************************************************************)
(* updateDocument                                                          *)
(***************************************************************************)
whereHasHashOnly(w, ks) == HasOwnProperty(w, ks.hash)

\* where.hasOwnProperty(hash) and (!range || where.hasOwnProperty(range))
whereHasKey(w, ks) ==
    /\ HasOwnProperty(w, ks.hash)
    /\ ks.range = "none" \/ HasOwnProperty(w, ks.range)

\* the update names the hash or the range key field
updatesKey(ks, update) == ks.hash \in Keys(update) \/ ks.range \in Keys(update)

\* assertRequiredUpdateProps: no key field is updated, no required field is nulled out
assertRequiredUpdateProps(props, ks, update) ==
    IF updatesKey(ks, update) THEN "immutable"
    ELSE IF \E i \in 1..Len(update) :
               /\ update[i].v = Null
               /\ \E q \in Lookup(props, update[i].k) : q.required = Bool(TRUE)
    THEN "required"
    ELSE "none"

\* formatUpdateData: the write pipeline with the onUpdate hooks
formatUpdateData(props, update) == formatWriteData(props, update, "onUpdate")

\* stringifyUpdateStatement: a REMOVE clause for each field left null or undefined, a SET
\* clause for each other field; nothing for an update without fields
stringifyUpdateStatement(update) ==
    [expression |-> update # <<>>,
     set |-> SelectSeq(update, LAMBDA e : e.v \notin {Null, Undef}),
     remove |-> SelectSeq(update, LAMBDA e : e.v \in {Null, Undef})]

\* the record the store holds after the update, as it returns it (ReturnValues: ALL_NEW)
RECURSIVE storedItem(_, _, _)
storedItem(item, update, i) ==
    IF i > Len(update) THEN item
    ELSE storedItem(IF update[i].v \in {Null, Undef} THEN item
                    ELSE Put(item, update[i].k, update[i].v), update, i + 1)

\* formatReadData runs without suspending over the properties no get transform applies
\* to: the first property from i on at whose get transform it awaits (0: none is left)
RECURSIVE nextAwait(_, _, _)
nextAwait(props, item, i) ==
    IF i > Len(props) THEN 0
    ELSE IF HasOwnProperty(item, props[i].name)
            /\ (IsFunction(TypeGet(props[i])) \/ IsFunction(props[i].get))
    THEN i
    ELSE nextAwait(props, item, i + 1)

\* the formatReadData task at its first await
startReader(props, item) ==
    LET i == nextAwait(props, item, 1)
    IN  [state |-> (IF i = 0 THEN "done" ELSE "awaiting"), i |-> i, item |-> item]

UpdateSchemas ==
    {<<Property("email", "String", Bool(TRUE), "none", ge, "none", "none", <<>>),
       Property("createdAt", "Date", Bool(TRUE), "none", "none", "orNow", "none", <<>>),
       Property("name", "String", rq, sn, gn, "none", "none", vn)>>
       \o up :
        ge \in {"none", "tagU"}, rq \in {Bool(TRUE), Bool(FALSE)}, sn \in {"none", "tagP", "throw"},
        gn \in {"none", "tagU", "throw"},
        vn \in {<<>>, <<Rule("notEmpty", "none")>>, <<Rule("isValidContent", "throw")>>},
        up \in {<<>>, <<updatedAtProperty>>}}

InitUpdate ==
    /\ op = "update"
    /\ pc = "start"
    /\ properties \in UpdateSchemas
    /\ keySchema \in {[hash |-> "email", range |-> r] : r \in {"none", "createdAt"}}
    /\ input \in DocsOf("name", {Str("x"), Str(""), Null}, "email", {Str("e")})
                 \cup {<<[k |-> "createdAt", v |-> Num(MaxNum)]>>}
    /\ data = input
    /\ where \in DocsOf("email", {Str("e")}, "createdAt", {Num(MaxNum)})
    /\ fieldHook = "none"
    /\ outcome = "pending"
    /\ result = NoDoc
    /\ calls = <<>>
    /\ options = [createdAtTimestamp |-> FALSE, updatedAtTimestamp |-> FALSE]
    /\ reader = NoReader
    /\ err = NoError

Reject(kind, key) ==
    /\ outcome' = "rejected"
    /\ err' = [kind |-> kind, key |-> key]
    /\ pc' = "done"

Proceed(step, next) ==
    /\ calls' = Append(calls, step)
    /\ pc' = next
    /\ UNCHANGED <<outcome, err>>

\* lines 16-18: the where-key presence check
CheckWhere ==
    /\ op = "update" /\ pc = "start"
    /\ IF whereHasKey(where, keySchema)
       THEN Proceed("where", "required")
       ELSE Reject("where", "none") /\ UNCHANGED calls
    /\ UNCHANGED <<op, properties, data, input, fieldHook, result, keySchema, options, reader, where>>

\* the call made without awaiting it: what it rejects with is lost
AssertRequiredUpdatePropsNotAwaited ==
    /\ op = "update" /\ pc = "required"
    /\ Proceed("required", "validate")
    /\ UNCHANGED <<op, properties, data, input, fieldHook, result, keySchema, options, reader, where>>

\* line 20: await assertRequiredUpdateProps.call(this, update)
AssertRequiredUpdateProps ==
    /\ op = "update" /\ pc = "required"
    /\ LET r == assertRequiredUpdateProps(properties, keySchema, data)
       IN  IF r = "none" THEN Proceed("required", "validate")
           ELSE Reject(r, "none") /\ UNCHANGED calls
    /\ UNCHANGED <<op, properties, data, input, fieldHook, result, keySchema, options, reader, where>>

\* line 21: await validateData.call(this, properties, update)
ValidateUpdate ==
    /\ op = "update" /\ pc = "validate"
    /\ LET r == validateData(properties, data)
       IN  IF r.failed = "none" THEN Proceed("validate", "format")
           ELSE Reject(r.failed, r.key) /\ UNCHANGED calls
    /\ UNCHANGED <<op, properties, data, input, fieldHook, result, keySchema, options, reader, where>>

\* line 22: await formatUpdateData.call(this, properties, update)
FormatUpdateData ==
    /\ op = "update" /\ pc = "format"
    /\ LET r == formatUpdateData(properties, data)
       IN  /\ data' = r.data
           /\ IF ~r.failed THEN Proceed("format", "stringify")
              ELSE Reject("transform", "none") /\ UNCHANGED calls
    /\ UNCHANGED <<op, properties, input, fieldHook, result, keySchema, options, reader, where>>

\* lines 24-27: the expression, and the assertions on it
StringifyUpdateStatement ==
    /\ op = "update" /\ pc = "stringify"
    /\ LET r == stringifyUpdateStatement(data)
       IN  IF r.expression THEN Proceed("stringify", "send")
           ELSE Reject("expression", "none") /\ UNCHANGED calls
    /\ UNCHANGED <<op, properties, data, input, fieldHook, result, keySchema, options, reader, where>>

\* lines 29-39: client.updateItem(params)
UpdateItem ==
    /\ op = "update" /\ pc = "send"
    /\ Proceed("updateItem", "store")
    /\ result' = [Key |-> where, UpdateExpression |-> stringifyUpdateStatement(data)]
    /\ UNCHANGED <<op, properties, data, input, fieldHook, keySchema, options, reader, where>>

\* line 39: the store fails the call
StoreRejects ==
    /\ op = "update" /\ pc = "store"
    /\ Reject("store", "none")
    /\ UNCHANGED <<op, properties, data, input, fieldHook, result, calls, keySchema, options,
                   reader, where>>

\* lines 42-47: the store returned no Attributes
StoreNotFound ==
    /\ op = "update" /\ pc = "store"
    /\ Reject("DOCUMENT_NOT_FOUND", "none")
    /\ UNCHANGED <<op, properties, data, input, fieldHook, result, calls, keySchema, options,
                   reader, where>>

\* lines 42-51: the store returned the record; formatReadData(properties, item) is called
\* and runs to its first await, and `return item` settles the call
ReturnItem ==
    /\ op = "update" /\ pc = "store"
    /\ LET item == storedItem(where, data, 1)
       IN  /\ reader' = startReader(properties, item)
           /\ result' = item
    /\ outcome' = "resolved"
    /\ pc' = "done"
    /\ calls' = Append(calls, "return")
    /\ UNCHANGED <<op, properties, data, input, fieldHook, keySchema, options, where, err>>

\* formatReadData resumes after the get transforms of one property settled, stores the
\* value and runs on to its next await
ReaderStep ==
    /\ op = "update" /\ reader.state = "awaiting"
    /\ LET r == formatReadField(properties[reader.i], reader.item)
           i == nextAwait(properties, r.data, reader.i + 1)
       IN  reader' = IF r.failed THEN [reader EXCEPT !.state = "failed"]
                     ELSE [state |-> (IF i = 0 THEN "done" ELSE "awaiting"), i |-> i,
                           item |-> r.data]
    /\ UNCHANGED <<op, pc, properties, data, input, fieldHook, outcome, result, calls,
                   keySchema, options, where, err>>

NextUpdate ==
    \/ CheckWhere
    \/ AssertRequiredUpdateProps
    \/ ValidateUpdate
    \/ FormatUpdateData
    \/ StringifyUpdateStatement
    \/ UpdateItem
    \/ StoreRejects
    \/ StoreNotFound
    \/ ReturnItem
    \/ ReaderStep

SpecUpdate == InitUpdate /\ [][NextUpdate]_vars

Steps == {calls[i] : i \in 1..Len(calls)}

UpdateStepOrder ==
    \A i \in 1..Len(calls) :
        /\ calls[i] = "validate" =>
              \E j \in 1..(i - 1) : calls[j] = "format"
        /\ calls[i] = "format" =>
              \E j \in 1..(i - 1) : calls[j] = "required"
        /\ calls[i] = "stringify" =>
              \E j \in 1..(i - 1) : calls[j] = "validate"

\* C6: updateDocument settles only after formatReadData has: the document it hands over
\* carries every get transform, and a failing get transform rejects the call.
ReadPipelineAwaited ==
    outcome = "resolved" =>
        /\ reader.state = "done"
        /\ result = reader.item

\* C8: updateItem is called at most once, and only after the where-key check, the
\* required-field check, validation, write formatting and expression generation have all
\* passed; when one of them fails the call rejects and updateItem is never called.
UpdateItemGuarded ==
    /\ Cardinality({i \in 1..Len(calls) : calls[i] = "updateItem"}) <= 1
    /\ \A i \in 1..Len(calls) :
          calls[i] = "updateItem" =>
             /\ {calls[j] : j \in 1..(i - 1)} =
                   {"where", "required", "validate", "format", "stringify"}
             /\ HasOwnProperty(where, keySchema.hash)
             /\ keySchema.range = "none" \/ HasOwnProperty(where, keySchema.range)
             /\ \A n \in 1..Len(input) :
                   input[n].v = Null =>
                      \A q \in Lookup(properties, input[n].k) : q.required # Bool(TRUE)
             /\ validateData(properties, input).failed = "none"
             /\ ~formatWriteData(properties, input, "onUpdate").failed
             /\ data # <<>>
    /\ (outcome = "rejected" /\ err.kind \notin {"store", "DOCUMENT_NOT_FOUND"}) =>
          "updateItem" \notin Steps

\* updateItem was called for a model with a range key
UpdateItemGuardedWitness ==
    /\ "updateItem" \in Steps
    /\ keySchema.range = "createdAt"
    /\ Len(data) > Len(input)

====
